---- MODULE Spec2Model ----
(***************************************************************************)
(* A model of solver.py: the Board of 81 Fields (value + nine marks), the  *)
(* Solver's put / remove / setup bookkeeping and the recursive step()      *)
(* search, unrolled into an explicit call stack, plus Board.verify.        *)
(***************************************************************************)
EXTENDS Integers, Sequences, FiniteSets, TLC

VARIABLES board, init, stack, pc, ret, act

vars == <<board, init, stack, pc, ret, act>>

(***************************************************************************)
(* Bounds of the model and the family of boards handed to the Solver.      *)
(***************************************************************************)
\* the last 0..MaxBlank cells (row-major) of the base grid are left empty
MaxBlank == 27

\* boards with more empty cells than this are not enumerated by Completions
EnumLimit == 40

\* a complete legal grid; the loaded boards are cut out of it
Sol ==
  << <<1,2,3,4,5,6,7,8,9>>,
     <<4,5,6,7,8,9,1,2,3>>,
     <<7,8,9,1,2,3,4,5,6>>,
     <<2,3,1,6,7,4,8,9,5>>,
     <<8,7,5,9,1,2,3,6,4>>,
     <<6,9,4,5,3,8,2,1,7>>,
     <<3,1,7,2,6,5,9,4,8>>,
     <<5,4,2,8,9,7,6,3,1>>,
     <<9,6,8,3,4,1,5,7,2>> >>

\* the cell of the loaded board that may hold any digit 0..9
AltCell == <<6, 4>>

Idx == 0..8
Pos == Idx \X Idx
Digit == 0..9
Number == 1..9

\* the element of a one-element set; The({e(v) : v \in {x}}) evaluates x once
\* and uses its value as v in e (the parameters of an operator are not values)
The(S) == CHOOSE r \in S : TRUE

\* row-major index of a position, as the nested loops over fields visit it
PosOf(k) == <<k \div 9, k % 9>>
KOf(p) == 9 * p[1] + p[2]

(***************************************************************************)
(* Field                                                                   *)
(***************************************************************************)
NewField == [value |-> 0, marks |-> [k \in 0..8 |-> 0]]

\* Python list index: marks[number - 1], a negative index counts from the end
MarkIdx(number) == (number - 1) % 9

put_mark(f, number) == [f EXCEPT !.marks[MarkIdx(number)] = @ + 1]

\* del_mark with the index of the next number: marks[number]
del_mark_next(f, number) == [f EXCEPT !.marks[number % 9] = @ - 1]

del_mark(f, number) == [f EXCEPT !.marks[MarkIdx(number)] = @ - 1]

get_mark(f, number) == f.marks[MarkIdx(number)]

(***************************************************************************)
(* Board                                                                   *)
(***************************************************************************)
\* read_sudokus: a fresh Board whose values are the digits of the text
LoadBoard(g) == [p \in Pos |-> [NewField EXCEPT !.value = g[p]]]

Values(b) == [p \in Pos |-> b[p].value]

is_filled(b) == \A p \in Pos : b[p].value # 0

\* the cells of the 3x3 section, the row and the column, in loop order
BoxSeq(starti, startj) ==
  [k \in 1..9 |-> <<starti + ((k - 1) \div 3), startj + ((k - 1) % 3)>>]
RowSeq(i) == [k \in 1..9 |-> <<i, k - 1>>]
ColSeq(j) == [k \in 1..9 |-> <<k - 1, j>>]

Range(s) == {s[k] : k \in DOMAIN s}

\* the groups of a position: starti = int(i / 3) * 3, startj = int(j / 3) * 3
BoxOf(p) == BoxSeq((p[1] \div 3) * 3, (p[2] \div 3) * 3)
RowOf(p) == RowSeq(p[1])
ColOf(p) == ColSeq(p[2])

(***************************************************************************)
(* Board.verify.  The returned text is modelled by its parts: what was     *)
(* found ("Duplicate", "missing" or "valid"), in which kind of group, the  *)
(* group's coordinates as the text prints them and the number it names.    *)
(***************************************************************************)
Boxes == [g \in 1..9 |-> BoxSeq(3 * ((g - 1) \div 3), 3 * ((g - 1) % 3))]
Rows == [g \in 1..9 |-> RowSeq(g - 1)]
Cols == [g \in 1..9 |-> ColSeq(g - 1)]

MinOf(S) == The({ (CHOOSE x \in v : \A y \in v : x <= y) : v \in {S} })

Report(what, kind, i, j, number) ==
  [what |-> what, kind |-> kind, i |-> i, j |-> j, number |-> number]

Valid == Report("valid", "", 0, 0, 0)

\* the cells of a group at which the checklist entry is already True
dup_cells(b, cells) ==
  {k \in 1..9 : /\ b[cells[k]].value # 0
                /\ \E k2 \in 1..(k - 1) : b[cells[k2]].value = b[cells[k]].value}

\* the checklist entries that are still False after the group was scanned
missing_numbers(b, cells) ==
  {number \in Number : \A k \in 1..9 : b[cells[k]].value # number}

\* the loop body for one group: "" when the group passes
check_group(b, cells, check_missing) ==
  IF dup_cells(b, cells) # {}
  THEN <<"Duplicate", b[cells[MinOf(dup_cells(b, cells))]].value>>
  ELSE IF check_missing /\ missing_numbers(b, cells) # {}
       THEN <<"missing", MinOf(missing_numbers(b, cells))>>
       ELSE <<"", 0>>

\* one of the three loops of verify: the first group that does not pass
verify_groups(b, groups, check_missing) ==
  LET bad == {g \in 1..9 : check_group(b, groups[g], check_missing)[1] # ""}
  IN  IF bad = {} THEN <<>>
      ELSE <<MinOf(bad), check_group(b, groups[MinOf(bad)], check_missing)>>

\* verify with the loop over the rows before the loop over the 3x3
verify_rows_first(b, check_missing) ==
  LET in3x3 == verify_groups(b, Boxes, check_missing)
      inrow == verify_groups(b, Rows, check_missing)
      incol == verify_groups(b, Cols, check_missing)
  IN  IF inrow # <<>>
      THEN Report(inrow[2][1], "row", inrow[1] - 1, 0,
                  IF inrow[2][1] = "missing" THEN inrow[2][2] ELSE 0)
      ELSE IF in3x3 # <<>>
      THEN Report(in3x3[2][1], "3x3", Boxes[in3x3[1]][1][1],
                  Boxes[in3x3[1]][1][2], in3x3[2][2])
      ELSE IF incol # <<>>
      THEN Report(incol[2][1], "column", 0, incol[1] - 1,
                  IF incol[2][1] = "missing" THEN incol[2][2] ELSE 0)
      ELSE Valid

\* verify without its third loop (the columns)
verify_no_columns(b, check_missing) ==
  LET in3x3 == verify_groups(b, Boxes, check_missing)
      inrow == verify_groups(b, Rows, check_missing)
  IN  IF in3x3 # <<>>
      THEN Report(in3x3[2][1], "3x3", Boxes[in3x3[1]][1][1],
                  Boxes[in3x3[1]][1][2], in3x3[2][2])
      ELSE IF inrow # <<>>
      THEN Report(inrow[2][1], "row", inrow[1] - 1, 0,
                  IF inrow[2][1] = "missing" THEN inrow[2][2] ELSE 0)
      ELSE Valid

verify(b, check_missing) ==
  LET in3x3 == verify_groups(b, Boxes, check_missing)
      inrow == verify_groups(b, Rows, check_missing)
      incol == verify_groups(b, Cols, check_missing)
  IN  IF in3x3 # <<>>
      THEN Report(in3x3[2][1], "3x3", Boxes[in3x3[1]][1][1],
                  Boxes[in3x3[1]][1][2], in3x3[2][2])
      ELSE IF inrow # <<>>
      THEN Report(inrow[2][1], "row", inrow[1] - 1, 0,
                  IF inrow[2][1] = "missing" THEN inrow[2][2] ELSE 0)
      ELSE IF incol # <<>>
      THEN Report(incol[2][1], "column", 0, incol[1] - 1,
                  IF incol[2][1] = "missing" THEN incol[2][2] ELSE 0)
      ELSE Valid

(***************************************************************************)
(* Solver.put / Solver.remove / Solver.setup                               *)
(***************************************************************************)
\* one loop of put / remove over the nine (distinct) fields of a group
put_marks(b, cells, value) ==
  The({
    [v EXCEPT ![cells[1]] = put_mark(v[cells[1]], value),
              ![cells[2]] = put_mark(v[cells[2]], value),
              ![cells[3]] = put_mark(v[cells[3]], value),
              ![cells[4]] = put_mark(v[cells[4]], value),
              ![cells[5]] = put_mark(v[cells[5]], value),
              ![cells[6]] = put_mark(v[cells[6]], value),
              ![cells[7]] = put_mark(v[cells[7]], value),
              ![cells[8]] = put_mark(v[cells[8]], value),
              ![cells[9]] = put_mark(v[cells[9]], value)]
    : v \in {b}})

del_marks(b, cells, value) ==
  The({
    [v EXCEPT ![cells[1]] = del_mark(v[cells[1]], value),
              ![cells[2]] = del_mark(v[cells[2]], value),
              ![cells[3]] = del_mark(v[cells[3]], value),
              ![cells[4]] = del_mark(v[cells[4]], value),
              ![cells[5]] = del_mark(v[cells[5]], value),
              ![cells[6]] = del_mark(v[cells[6]], value),
              ![cells[7]] = del_mark(v[cells[7]], value),
              ![cells[8]] = del_mark(v[cells[8]], value),
              ![cells[9]] = del_mark(v[cells[9]], value)]
    : v \in {b}})

\* put without its third loop (the column)
put_no_column(b, pos, value) ==
  LET b0 == [b EXCEPT ![pos].value = value]
      b1 == put_marks(b0, BoxOf(pos), value)
  IN  put_marks(b1, RowOf(pos), value)

\* put without its second loop (the row)
put_no_row(b, pos, value) ==
  LET b0 == [b EXCEPT ![pos].value = value]
      b1 == put_marks(b0, BoxOf(pos), value)
  IN  put_marks(b1, ColOf(pos), value)

\* put that marks every other field of the three groups, not the field itself
put_other_fields(b, pos, value) ==
  LET b0 == [b EXCEPT ![pos].value = value]
      b1 == put_marks(b0, BoxOf(pos), value)
      b2 == put_marks(b1, RowOf(pos), value)
      b3 == put_marks(b2, ColOf(pos), value)
  IN  [b3 EXCEPT ![pos].marks[MarkIdx(value)] = @ - 3]

put(b, pos, value) ==
  LET b0 == [b EXCEPT ![pos].value = value]
      b1 == put_marks(b0, BoxOf(pos), value)
      b2 == put_marks(b1, RowOf(pos), value)
  IN  put_marks(b2, ColOf(pos), value)

\* remove without its third loop (the column)
remove_no_column(b, pos) ==
  LET value == b[pos].value
      b0 == [b EXCEPT ![pos].value = 0]
      b1 == del_marks(b0, BoxOf(pos), value)
  IN  del_marks(b1, RowOf(pos), value)

remove(b, pos) ==
  LET value == b[pos].value
      b0 == [b EXCEPT ![pos].value = 0]
      b1 == del_marks(b0, BoxOf(pos), value)
      b2 == del_marks(b1, RowOf(pos), value)
  IN  del_marks(b2, ColOf(pos), value)

\* for j, f in enumerate(row): the fields of row i from column j on
RECURSIVE setup_row(_, _, _)
setup_row(b, i, j) ==
  IF j = 9 THEN b
  ELSE The({ (IF v[<<i, j>>].value # 0
              THEN setup_row(put(v, <<i, j>>, v[<<i, j>>].value), i, j + 1)
              ELSE setup_row(v, i, j + 1))
             : v \in {b} })

\* for i, row in enumerate(fields): the rows from row i on
RECURSIVE setup_rows(_, _)
setup_rows(b, i) ==
  IF i = 9 THEN b
  ELSE The({ setup_rows(v, i + 1) : v \in {setup_row(b, i, 0)} })

setup(b) == setup_rows(b, 0)

(***************************************************************************)
(* Solver.step: the forced-move scan                                       *)
(***************************************************************************)
\* counts without the test f.value == 0: filled cells are appended too
counts_zero_mark(b, cells, number) ==
  SelectSeq(cells, LAMBDA p : get_mark(b[p], number) = 0)

\* counts that appends every empty cell, whatever its mark
counts_any_empty(b, cells, number) ==
  SelectSeq(cells, LAMBDA p : b[p].value = 0)

\* counts[number]: the empty cells of the group whose mark for number is 0
counts(b, cells, number) ==
  SelectSeq(cells, LAMBDA p : b[p].value = 0 /\ get_mark(b[p], number) = 0)

\* the (group, number) pairs of the groups whose counts has length 1
single_spots(b, groups) ==
  {h \in (1..9) \X Number : Len(counts(b, groups[h[1]], h[2])) = 1}

\* the first of them in loop order (groups in order, numbers ascending),
\* as <<position, number>>, or <<>> when the loops fall through
ScanGroups(b, groups) ==
  The({ (IF hits = {} THEN <<>>
         ELSE LET h == CHOOSE h \in hits : \A h2 \in hits :
                         h[1] < h2[1] \/ (h[1] = h2[1] /\ h[2] <= h2[2])
              IN  <<counts(b, groups[h[1]], h[2])[1], h[2]>>)
        : hits \in {single_spots(b, groups)} })

\* the scan with the rows first, then the 3x3, then the columns
forced_move_rows_first(b) ==
  The({ (IF inrow # <<>> THEN inrow
         ELSE The({ (IF in3x3 # <<>> THEN in3x3 ELSE ScanGroups(b, Cols))
                    : in3x3 \in {ScanGroups(b, Boxes)} }))
        : inrow \in {ScanGroups(b, Rows)} })

\* go through all 3x3, then all rows, then all columns
forced_move(b) ==
  The({ (IF in3x3 # <<>> THEN in3x3
         ELSE The({ (IF inrow # <<>> THEN inrow ELSE ScanGroups(b, Cols))
                    : inrow \in {ScanGroups(b, Rows)} }))
        : in3x3 \in {ScanGroups(b, Boxes)} })

(***************************************************************************)
(* Solver.step: the field with least possibilities                         *)
(***************************************************************************)
free_numbers(f) == 9 - Cardinality({number \in Number : get_mark(f, number) # 0})

\* the inner loop with <= for <: the last field of the least count wins
RECURSIVE min_scan_row_last(_, _, _, _)
min_scan_row_last(b, i, j, best) ==
  IF j = 9 THEN best
  ELSE The({ (IF b[<<i, j>>].value = 0 /\ free_numbers(b[<<i, j>>]) <= v[1]
              THEN min_scan_row_last(b, i, j + 1,
                                     <<free_numbers(b[<<i, j>>]), <<i, j>>>>)
              ELSE min_scan_row_last(b, i, j + 1, v))
             : v \in {best} })

\* the scan over all fields, carrying best = <<min_free_numbers, min_pos>>:
\* for j in range(9), from column j on
RECURSIVE min_scan_row(_, _, _, _)
min_scan_row(b, i, j, best) ==
  IF j = 9 THEN best
  ELSE The({ (IF b[<<i, j>>].value = 0 /\ free_numbers(b[<<i, j>>]) < v[1]
              THEN min_scan_row(b, i, j + 1, <<free_numbers(b[<<i, j>>]), <<i, j>>>>)
              ELSE min_scan_row(b, i, j + 1, v))
             : v \in {best} })

\* for i in range(9), from row i on
RECURSIVE min_scan(_, _, _)
min_scan(b, i, best) ==
  IF i = 9 THEN best
  ELSE The({ min_scan(b, i + 1, v) : v \in {min_scan_row(b, i, 0, best)} })

min_free_numbers(b) == min_scan(b, 0, <<10, <<-1, -1>>>>)[1]
min_pos(b) == min_scan(b, 0, <<10, <<-1, -1>>>>)[2]

\* possible_numbers without the filter on the marks
possible_numbers_all(f) == [k \in 1..9 |-> k]

\* possible_numbers filtered from range(9, 0, -1): the largest number first
possible_numbers_descending(f) ==
  SelectSeq([k \in 1..9 |-> 10 - k], LAMBDA n : get_mark(f, n) = 0)

\* possible_numbers cut after its first entry: a guess loop of one round
possible_numbers_first(f) ==
  SubSeq(SelectSeq([k \in 1..9 |-> k], LAMBDA n : get_mark(f, n) = 0), 1, 1)

possible_numbers(f) ==
  SelectSeq([k \in 1..9 |-> k], LAMBDA n : get_mark(f, n) = 0)

(***************************************************************************)
(* The boards handed to the Solver                                         *)
(***************************************************************************)
Grid(nb, d) ==
  [p \in Pos |-> IF p = AltCell THEN d
                 ELSE IF KOf(p) >= 81 - nb THEN 0
                 ELSE Sol[p[1] + 1][p[2] + 1]]

InitGrids == {Grid(nb, d) : nb \in (0..MaxBlank) \cup {81}, d \in Digit}

(***************************************************************************)
(* State machine.  pc: "setup" before Solver(board), "call" at the entry   *)
(* of a step() call, "ret" when a step() call has returned ret to its      *)
(* caller, "loop" in the guess loop after a remove, "done" when the        *)
(* outermost step() has returned.  stack: one frame per step() call that   *)
(* is waiting for the recursive call it made, with the board that call     *)
(* was entered with.  init (the loaded digits) and act (the name of the    *)
(* last step taken) are history variables.                                 *)
(***************************************************************************)
Init ==
  /\ init \in InitGrids
  /\ board = LoadBoard(init)
  /\ stack = <<>>
  /\ pc = "setup"
  /\ ret = FALSE
  /\ act = "Init"

\* Solver.__init__
Setup ==
  /\ pc = "setup"
  /\ board' = setup(board)
  /\ pc' = "call"
  /\ act' = "Setup"
  /\ UNCHANGED <<init, stack, ret>>

\* step: the board is filled
StepFilled ==
  /\ pc = "call"
  /\ is_filled(board)
  /\ pc' = "ret"
  /\ ret' = TRUE
  /\ act' = "StepFilled"
  /\ UNCHANGED <<board, init, stack>>

\* step: a number with a single available spot; try_put puts it and recurses
StepForced ==
  /\ pc = "call"
  /\ ~is_filled(board)
  /\ \E m \in {forced_move(board)} :
        /\ m # <<>>
        /\ board' = put(board, m[1], m[2])
        /\ stack' = Append(stack, [kind |-> "forced", pos |-> m[1],
                                   numbers |-> <<m[2]>>, idx |-> 1,
                                   entry |-> board])
  /\ pc' = "call"
  /\ act' = "StepForced"
  /\ UNCHANGED <<init, ret>>

\* step: no forced move and the field with least possibilities has none
StepDeadEnd ==
  /\ pc = "call"
  /\ ~is_filled(board)
  /\ forced_move(board) = <<>>
  /\ min_free_numbers(board) = 0
  /\ pc' = "ret"
  /\ ret' = FALSE
  /\ act' = "StepDeadEnd"
  /\ UNCHANGED <<board, init, stack>>

\* step: guess the first possible number of min_pos and recurse
StepGuess ==
  /\ pc = "call"
  /\ ~is_filled(board)
  /\ forced_move(board) = <<>>
  /\ min_free_numbers(board) # 0
  /\ \E mp \in {min_pos(board)} :
     \E nums \in {possible_numbers(board[mp])} :
        /\ board' = put(board, mp, nums[1])
        /\ stack' = Append(stack, [kind |-> "guess", pos |-> mp,
                                   numbers |-> nums, idx |-> 1,
                                   entry |-> board])
  /\ pc' = "call"
  /\ act' = "StepGuess"
  /\ UNCHANGED <<init, ret>>

Top == stack[Len(stack)]
Pop == SubSeq(stack, 1, Len(stack) - 1)

\* the recursive call returned True: the waiting call returns True
ReturnTrue ==
  /\ pc = "ret"
  /\ ret
  /\ stack # <<>>
  /\ stack' = Pop
  /\ act' = "ReturnTrue"
  /\ UNCHANGED <<board, init, pc, ret>>

\* try_put that removes and lets step() go on scanning instead of returning
ForcedFail_Rescan ==
  /\ pc = "ret"
  /\ ~ret
  /\ stack # <<>>
  /\ Top.kind = "forced"
  /\ board' = remove(board, Top.pos)
  /\ stack' = Pop
  /\ pc' = "call"
  /\ act' = "ForcedFail"
  /\ UNCHANGED <<init, ret>>

\* try_put: the recursive call returned False: remove and return False
ForcedFail ==
  /\ pc = "ret"
  /\ ~ret
  /\ stack # <<>>
  /\ Top.kind = "forced"
  /\ board' = remove(board, Top.pos)
  /\ stack' = Pop
  /\ act' = "ForcedFail"
  /\ UNCHANGED <<init, pc, ret>>

\* the guess loop going on to the next number without the remove
GuessRetract_NoRemove ==
  /\ pc = "ret"
  /\ ~ret
  /\ stack # <<>>
  /\ Top.kind = "guess"
  /\ pc' = "loop"
  /\ act' = "GuessRetract"
  /\ UNCHANGED <<board, init, stack, ret>>

\* guess loop: the recursive call returned False: remove the guess
GuessRetract ==
  /\ pc = "ret"
  /\ ~ret
  /\ stack # <<>>
  /\ Top.kind = "guess"
  /\ board' = remove(board, Top.pos)
  /\ pc' = "loop"
  /\ act' = "GuessRetract"
  /\ UNCHANGED <<init, stack, ret>>

\* guess loop: the next possible number is put and step recurses
GuessNext ==
  /\ pc = "loop"
  /\ Top.idx < Len(Top.numbers)
  /\ board' = put(board, Top.pos, Top.numbers[Top.idx + 1])
  /\ stack' = [stack EXCEPT ![Len(stack)].idx = @ + 1]
  /\ pc' = "call"
  /\ act' = "GuessNext"
  /\ UNCHANGED <<init, ret>>

\* the guess loop starting over instead of returning False
GuessExhausted_Restart ==
  /\ pc = "loop"
  /\ Top.idx >= Len(Top.numbers)
  /\ board' = put(board, Top.pos, Top.numbers[1])
  /\ stack' = [stack EXCEPT ![Len(stack)].idx = 1]
  /\ pc' = "call"
  /\ act' = "GuessExhausted"
  /\ UNCHANGED <<init, ret>>

\* guess loop: no possible number is left: return False
GuessExhausted ==
  /\ pc = "loop"
  /\ Top.idx >= Len(Top.numbers)
  /\ stack' = Pop
  /\ pc' = "ret"
  /\ ret' = FALSE
  /\ act' = "GuessExhausted"
  /\ UNCHANGED <<board, init>>

\* the outermost step() returns to its caller
Finish ==
  /\ pc = "ret"
  /\ stack = <<>>
  /\ pc' = "done"
  /\ act' = "Finish"
  /\ UNCHANGED <<board, init, stack, ret>>

Next ==
  \/ Setup
  \/ StepFilled
  \/ StepForced
  \/ StepDeadEnd
  \/ StepGuess
  \/ ReturnTrue
  \/ ForcedFail
  \/ GuessRetract
  \/ GuessNext
  \/ GuessExhausted
  \/ Finish

Spec == Init /\ [][Next]_vars

\* step() is ordinary sequential code: a call that can take a step takes it
FairSpec == Spec /\ WF_vars(Next)

(***************************************************************************)
(* The rules of the puzzle, stated on plain grids of digits and            *)
(* independently of the code's loops and marks.                            *)
(***************************************************************************)
RowSet(i) == {<<i, j>> : j \in Idx}
ColSet(j) == {<<i, j>> : i \in Idx}
BoxSet(a, c) == {<<3 * a + x, 3 * c + y>> : x \in 0..2, y \in 0..2}

GroupSets ==
  {RowSet(i) : i \in Idx} \cup {ColSet(j) : j \in Idx}
    \cup {BoxSet(a, c) : a \in 0..2, c \in 0..2}

\* the row, the column and the box of a position
GroupsOf(p) == <<RowSet(p[1]), ColSet(p[2]), BoxSet(p[1] \div 3, p[2] \div 3)>>

\* no row, column or box holds the same nonzero digit twice
NoDup(g) ==
  \A G \in GroupSets : \A p \in G :
     g[p] # 0 => \A q \in G \ {p} : g[q] # g[p]

\* every row, column and box holds each of 1..9 exactly once
Legal(g) ==
  \A G \in GroupSets : \A n \in Number :
     Cardinality({q \in G : g[q] = n}) = 1

NumEmpty(g) == Cardinality({p \in Pos : g[p] = 0})

\* g2 keeps every pre-filled digit of g
Extends(g2, g) == \A p \in Pos : g[p] # 0 => g2[p] = g[p]

\* every complete legal grid that keeps the digits of g, found by filling the
\* first empty cell (row-major) with every digit its groups do not hold
RECURSIVE Completions(_)
Completions(g) ==
  IF \A p \in Pos : g[p] # 0
  THEN IF Legal(g) THEN {g} ELSE {}
  ELSE LET k == MinOf({KOf(p) : p \in {q \in Pos : g[q] = 0}})
           cand == {n \in Number :
                      \A m \in 1..3 : \A q \in GroupsOf(PosOf(k))[m] : g[q] # n}
       IN  UNION {Completions([g EXCEPT ![PosOf(k)] = n]) : n \in cand}

\* the base grid with the digits a and c exchanged
SolSwapped(a, c) ==
  [p \in Pos |-> LET d == Sol[p[1] + 1][p[2] + 1]
                 IN  IF d = a THEN c ELSE IF d = c THEN a ELSE d]


(***************************************************************************)
(* C1: whenever step() has returned True, verify() on the board returns    *)
(* "valid" (the claim as stated, for every loaded board).                  *)
(***************************************************************************)
C1_TrueImpliesValid ==
  (pc = "done" /\ ret) => verify(board, TRUE) = Valid

(***************************************************************************)
(* C2: for a loaded board without duplicates, step() returns True exactly  *)
(* when some complete legal grid keeps the pre-filled digits, and when     *)
(* there is exactly one such grid the board ends up equal to it.  Boards   *)
(* with more than EnumLimit empty cells are too many to enumerate; for     *)
(* them a completion is exhibited (the base grid with two digits           *)
(* exchanged) and step() must return True.                                 *)
(***************************************************************************)
C2_Exhaustive ==
  (pc = "done" /\ NoDup(init)) =>
     /\ ret => (Legal(Values(board)) /\ Extends(Values(board), init))
     /\ NumEmpty(init) <= EnumLimit =>
          LET comps == Completions(init)
          IN  /\ ret <=> comps # {}
              /\ Cardinality(comps) = 1 => comps = {Values(board)}
     /\ NumEmpty(init) > EnumLimit =>
          ((\E a \in Number : \E c \in Number :
               Legal(SolSwapped(a, c)) /\ Extends(SolSwapped(a, c), init)) => ret)

\* a board without duplicates that has no completion: False after the search
C2_Witness ==
  /\ pc = "done"
  /\ NoDup(init)
  /\ ~ret
  /\ NumEmpty(init) >= 2
  /\ Completions(init) = {}

(***************************************************************************)
(* C3: whenever a call of step() returns False, the board (the value and   *)
(* the nine marks of every field) is as it was when that call was entered. *)
(* A step that ends a call with False is one into pc = "ret" with ret      *)
(* False: from "call" it ends the call entered in this very state, else    *)
(* it ends the call of the top frame.                                      *)
(***************************************************************************)
C3_FalseRestoresBoard ==
  [][(pc' = "ret" /\ ~ret') =>
        board' = (IF pc = "call" THEN board ELSE Top.entry)]_vars

\* a guessing call has returned False after all its guesses were removed
C3_Witness ==
  /\ pc = "ret"
  /\ ~ret
  /\ act = "GuessExhausted"
  /\ stack # <<>>

(***************************************************************************)
(* C5: every call of step() terminates: the outermost call returns, and    *)
(* every recursive call is entered with strictly fewer empty fields than   *)
(* the call that made it was entered with.                                 *)
(***************************************************************************)
CallShrinks ==
  (pc = "call" /\ stack # <<>>) =>
     NumEmpty(Values(board)) < NumEmpty(Values(Top.entry))

C6_EmptyBoardSolved ==
  (\A p \in Pos : init[p] = 0) ~>
     (pc = "done" /\ ret /\ verify(board, TRUE) = Valid)

C6_Witness ==
  /\ \A p \in Pos : init[p] = 0
  /\ pc = "done"
  /\ ret
  /\ is_filled(board)

(***************************************************************************)
(* C7: on any board, for any empty position and any value 1..9, put        *)
(* followed at once by remove leaves the value and the nine marks of       *)
(* every field as they were.                                               *)
(***************************************************************************)
C7_PutRemoveRoundTrip ==
  \A pos \in Pos : board[pos].value = 0 =>
     \A v \in Number : remove(put(board, pos, v), pos) = board

\* the empty board after setup: a put changes it and remove undoes it
C7_Witness ==
  /\ pc = "call"
  /\ \A p \in Pos : board[p] = NewField
  /\ put(board, <<4, 4>>, 5) # board
  /\ remove(put(board, <<4, 4>>, 5), <<4, 4>>) = board

(***************************************************************************)
(* C4: if the loaded board holds the same nonzero digit twice in a row,    *)
(* column or box, step() returns False (the claim as stated).              *)
(***************************************************************************)
C4_DuplicateReturnsFalse ==
  (pc = "done" /\ ~NoDup(init)) => ~ret

(***************************************************************************)
(* C8: verify(False) returns "valid" exactly when no row, column or box    *)
(* holds a nonzero digit twice, and verify(True) returns "valid" exactly   *)
(* when every row, column and box holds each of 1..9 exactly once.         *)
(***************************************************************************)
C8_VerifyDecides ==
  /\ (verify(board, FALSE) = Valid) <=> NoDup(Values(board))
  /\ (verify(board, TRUE) = Valid) <=> Legal(Values(board))

\* after step(): a board whose only duplicate is in a column, and verify(False)
\* reports it
C8_Witness ==
  /\ pc = "done"
  /\ ~NoDup(Values(board))
  /\ verify(board, FALSE) # Valid
  /\ verify(board, FALSE).kind = "column"

(***************************************************************************)
(* C9: for a loaded board without duplicates, after Solver(board) and at   *)
(* every point of step(), the mark of every field for every number is the  *)
(* number of its three groups (row, column, 3x3) that hold the number; so   *)
(* for an empty field the mark is 0 exactly when the number is in none of  *)
(* its groups, and no mark is negative.                                    *)
(***************************************************************************)
GroupsHolding(g, p, n) ==
  Cardinality({k \in 1..3 : \E q \in GroupsOf(p)[k] : g[q] = n})

C9_OccupancyInvariant ==
  (NoDup(init) /\ pc # "setup") =>
     \A p \in Pos : \A n \in Number :
        /\ get_mark(board[p], n) = GroupsHolding(Values(board), p, n)
        /\ get_mark(board[p], n) >= 0
        /\ board[p].value = 0 =>
             (get_mark(board[p], n) = 0
                <=> \A k \in 1..3 : \A q \in GroupsOf(p)[k] :
                       board[q].value # n)

\* in the middle of a search: puts made, a guess removed again
C9_Witness ==
  /\ NoDup(init)
  /\ pc = "loop"
  /\ Len(stack) >= 2
  /\ \E p \in Pos : \E n \in Number : get_mark(board[p], n) = 3

(***************************************************************************)
(* C10: for a loaded board without duplicates, at every point of step()    *)
(* no two fields that share a row, column or box hold the same nonzero     *)
(* value.                                                                  *)
(***************************************************************************)
C10_UniquenessInvariant ==
  NoDup(init) => NoDup(Values(board))

\* a guess has been put on the board next to forced moves
C10_Witness ==
  /\ NoDup(init)
  /\ act = "GuessNext"
  /\ NumEmpty(Values(board)) < NumEmpty(init)

(***************************************************************************)
(* The steps of step() that call put, and the position and number put.     *)
(***************************************************************************)
IsPut == act' \in {"StepForced", "StepGuess", "GuessNext"}
PutPos == Top'.pos
PutNumber == Top'.numbers[Top'.idx]

\* how many of the three groups of pos hold the position p
SharedGroups(p, pos) == Cardinality({k \in 1..3 : p \in GroupsOf(pos)[k]})

\* b2 is b after value v was written at pos and the mark for v of every field
\* p # pos was raised once per group that p shares with pos, the mark for v of
\* pos itself was raised by self, and nothing else was changed
PutEffect(b, b2, pos, v, self) ==
  /\ b2[pos].value = v
  /\ \A p \in Pos \ {pos} : b2[p].value = b[p].value
  /\ \A p \in Pos : \A n \in Number :
        get_mark(b2[p], n) =
          get_mark(b[p], n) + (IF n # v THEN 0
                               ELSE IF p = pos THEN self
                               ELSE SharedGroups(p, pos))

\* Solver(board) on a board with one digit is one put
IsSinglePut == act' = "Setup" /\ NumEmpty(init) = 80 /\ init[AltCell] # 0

(***************************************************************************)
(* C11 as stated: put sets the value and raises the mark for the value of  *)
(* every other field of the three groups once per shared group; the marks  *)
(* of the field put itself, the marks for other numbers and the fields     *)
(* outside the groups are unchanged.                                       *)
(***************************************************************************)
C11_PutMarksOtherFields ==
  [][/\ IsPut => PutEffect(board, board', PutPos, PutNumber, 0)
     /\ IsSinglePut => PutEffect(board, board', AltCell, init[AltCell], 0)]_vars

(***************************************************************************)
(* C11 amended: put sets the value and raises the mark for the value of    *)
(* every field of the three groups, the field put included, once per group *)
(* that holds it (so by 3 for the field put itself); the marks for other   *)
(* numbers and the fields outside the groups are unchanged.                *)
(***************************************************************************)
C11_PutMarksWholeGroups ==
  [][/\ IsPut => PutEffect(board, board', PutPos, PutNumber, 3)
     /\ IsSinglePut => PutEffect(board, board', AltCell, init[AltCell], 3)]_vars

\* a guess was put on a board that held no mark for it at its field: the
\* field's own mark is now 3 and a field of its row and box has mark 2
C11_Witness ==
  /\ act = "StepGuess"
  /\ get_mark(Top.entry[Top.pos], Top.numbers[1]) = 0
  /\ get_mark(board[Top.pos], Top.numbers[1]) = 3
  /\ \E p \in Pos \ {Top.pos} :
        get_mark(board[p], Top.numbers[1]) =
          get_mark(Top.entry[p], Top.numbers[1]) + 2

(***************************************************************************)
(* The forced moves of a board, stated on sets: the 27 groups numbered in  *)
(* the order 3x3 (row-major over the starts 0, 3, 6), rows 0..8, columns   *)
(* 0..8.                                                                   *)
(***************************************************************************)
GroupAt(g) ==
  IF g < 9 THEN BoxSet(g \div 3, g % 3)
  ELSE IF g < 18 THEN RowSet(g - 9) ELSE ColSet(g - 18)

\* the empty fields of group G whose mark for n is 0
Candidates(b, G, n) == {p \in G : b[p].value = 0 /\ get_mark(b[p], n) = 0}

\* the (group, number) pairs with exactly one such field
ForcedPairs(b) ==
  {h \in (0..26) \X Number : Cardinality(Candidates(b, GroupAt(h[1]), h[2])) = 1}

\* the first of a nonempty set of pairs: groups in order, numbers ascending
FirstPair(H) ==
  CHOOSE h \in H : \A h2 \in H : h[1] < h2[1] \/ (h[1] = h2[1] /\ h[2] <= h2[2])

ForcedCell(b, h) == The(Candidates(b, GroupAt(h[1]), h[2]))

\* no field that is filled after the step was filled by the step
NoAssign == \A p \in Pos : board'[p].value # 0 => board'[p].value = board[p].value

(***************************************************************************)
(* C12: at the entry of a step() call on a board that is not filled, if    *)
(* some (group, number) pair has exactly one empty field with mark 0, the  *)
(* call puts the number of the first such pair (3x3, then rows, then       *)
(* columns; numbers ascending) at that field, changes no other value and   *)
(* recurses; and when that recursive call has returned, the call returns   *)
(* without putting anything else (no second forced move, no guess).        *)
(***************************************************************************)
C12_FirstForcedMoveOnly ==
  [][/\ (pc = "call" /\ NumEmpty(Values(board)) > 0 /\ ForcedPairs(board) # {}) =>
          \E H \in {ForcedPairs(board)} :
          \E h \in {FirstPair(H)} :
          \E pos \in {ForcedCell(board, h)} :
             /\ act' = "StepForced"
             /\ pc' = "call"
             /\ board'[pos].value = h[2]
             /\ \A p \in Pos \ {pos} : board'[p].value = board[p].value
             /\ Len(stack') = Len(stack) + 1
             /\ Top'.kind = "forced"
     /\ (pc = "ret" /\ stack # <<>> /\ Top.kind = "forced") =>
          /\ stack' = Pop
          /\ pc' = "ret"
          /\ ret' = ret
          /\ NoAssign]_vars

\* a forced move found by the column scan alone, on a board with several
\* forced pairs at different fields
C12_Witness ==
  /\ act = "StepForced"
  /\ \E H \in {ForcedPairs(Top.entry)} :
        /\ FirstPair(H)[1] >= 18
        /\ \E h2 \in H : ForcedCell(Top.entry, h2) # Top.pos
        /\ board[Top.pos].value = FirstPair(H)[2]

(***************************************************************************)
(* C13: when the recursive call made after a forced move has returned      *)
(* False, the next step of the waiting call removes the forced move and    *)
(* returns False: the field of the forced move is emptied, no other value  *)
(* changes, the board is the one the call was entered with, and the call   *)
(* is over (no other number for the field, no further scan, no guess).     *)
(***************************************************************************)
C13_ForcedFailReturnsFalse ==
  [][(pc = "ret" /\ ~ret /\ stack # <<>> /\ Top.kind = "forced") =>
        /\ board[Top.pos].value # 0
        /\ board'[Top.pos].value = 0
        /\ \A p \in Pos \ {Top.pos} : board'[p].value = board[p].value
        /\ board' = Top.entry
        /\ stack' = Pop
        /\ pc' = "ret"
        /\ ~ret']_vars

\* a forced move was removed on a board that still has forced pairs at
\* several fields, so a further scan would have found a move
C13_Witness ==
  /\ act = "ForcedFail"
  /\ pc = "ret"
  /\ ~ret
  /\ \E H \in {ForcedPairs(board)} :
     \E h1 \in H : \E h2 \in H : ForcedCell(board, h1) # ForcedCell(board, h2)

(***************************************************************************)
(* The candidates of the empty fields, stated on sets.                     *)
(***************************************************************************)
Cands(b, p) == {n \in Number : get_mark(b[p], n) = 0}

EmptyCells(b) == {p \in Pos : b[p].value = 0}

\* the empty fields with the fewest candidates
MinCells(b) ==
  {p \in EmptyCells(b) :
     \A q \in EmptyCells(b) : Cardinality(Cands(b, p)) <= Cardinality(Cands(b, q))}

\* the first field of a nonempty set in row-major order
FirstCell(S) == CHOOSE p \in S : \A q \in S : KOf(p) <= KOf(q)

(***************************************************************************)
(* C14: at the entry of a step() call on a board that is not filled and    *)
(* has no forced pair, the call looks at the first field in row-major      *)
(* order among the empty fields with the fewest mark-0 numbers: if that    *)
(* field has none the call returns False and has changed nothing (no put,  *)
(* no remove); otherwise the call guesses at that field and recurses.      *)
(***************************************************************************)
C14_GuessCellIsFirstMinimum ==
  [][(pc = "call" /\ NumEmpty(Values(board)) > 0 /\ ForcedPairs(board) = {}) =>
        \E pos \in {FirstCell(MinCells(board))} :
           IF Cands(board, pos) = {}
           THEN /\ pc' = "ret"
                /\ ~ret'
                /\ board' = board
                /\ stack' = stack
           ELSE /\ pc' = "call"
                /\ Len(stack') = Len(stack) + 1
                /\ Top'.kind = "guess"
                /\ Top'.pos = pos
                /\ board'[pos].value \in Cands(board, pos)
                /\ \A p \in Pos \ {pos} : board'[p].value = board[p].value]_vars

\* a guess at the first of several fields that tie for the fewest candidates,
\* while other empty fields have more
C14_Witness ==
  /\ act = "StepGuess"
  /\ \E M \in {MinCells(Top.entry)} :
        /\ Cardinality(M) >= 2
        /\ M # EmptyCells(Top.entry)
        /\ Top.pos = FirstCell(M)

\* the least number of a nonempty set
Least(S) == CHOOSE n \in S : \A n2 \in S : n <= n2

(***************************************************************************)
(* C15: the guess loop tries the mark-0 numbers of the chosen field in     *)
(* ascending order, one at a time: the first guess is the least of them;   *)
(* when the recursion of a guess returned True the call returns True at    *)
(* once, the board untouched; when it returned False the guess is removed  *)
(* (the board is the entry board again) and the next guess is the least    *)
(* candidate above the one just removed; only when none is left the call   *)
(* returns False.                                                          *)
(***************************************************************************)
C15_GuessOrder ==
  [][/\ act' = "StepGuess" =>
          board'[Top'.pos].value = Least(Cands(board, Top'.pos))
     /\ (pc = "ret" /\ ret /\ stack # <<>> /\ Top.kind = "guess") =>
          /\ stack' = Pop
          /\ pc' = "ret"
          /\ ret'
          /\ board' = board
     /\ (pc = "ret" /\ ~ret /\ stack # <<>> /\ Top.kind = "guess") =>
          /\ board[Top.pos].value = Top.numbers[Top.idx]
          /\ board'[Top.pos].value = 0
          /\ board' = Top.entry
          /\ stack' = stack
          /\ pc' = "loop"
     /\ pc = "loop" =>
          \E later \in {{n \in Cands(board, Top.pos) : n > Top.numbers[Top.idx]}} :
             IF later # {}
             THEN /\ pc' = "call"
                  /\ board'[Top.pos].value = Least(later)
                  /\ \A p \in Pos \ {Top.pos} : board'[p].value = board[p].value
                  /\ Len(stack') = Len(stack)
                  /\ Top'.pos = Top.pos
             ELSE /\ pc' = "ret"
                  /\ ~ret'
                  /\ board' = board
                  /\ stack' = Pop]_vars

\* the second candidate of a field is put after the smaller one was put,
\* failed and was removed
C15_Witness ==
  /\ act = "GuessNext"
  /\ Top.idx = 2
  /\ board[Top.pos].value > Least(Cands(Top.entry, Top.pos))
  /\ {n \in Cands(Top.entry, Top.pos) : n < board[Top.pos].value}
       = {Least(Cands(Top.entry, Top.pos))}

(***************************************************************************)
(* The violations of the groups of a grid, stated on sets.                 *)
(***************************************************************************)
HasDup(g, G) == \E p \in G : g[p] # 0 /\ \E q \in G \ {p} : g[q] = g[p]

HasMissing(g, G) == \E n \in Number : \A p \in G : g[p] # n

\* what is wrong with group k (numbered as by GroupAt): a duplicate counts
\* before a missing number
Violation(g, k, check_missing) ==
  IF HasDup(g, GroupAt(k)) THEN "Duplicate"
  ELSE IF check_missing /\ HasMissing(g, GroupAt(k)) THEN "missing"
  ELSE ""

BadGroups(g, check_missing) ==
  {k \in 0..26 : Violation(g, k, check_missing) # ""}

\* verify on b reports the violation of the first bad group, naming the
\* group, or "valid" when there is none
ReportsFirstViolation(b, check_missing) ==
  \E bad \in {BadGroups(Values(b), check_missing)} :
  \E r \in {verify(b, check_missing)} :
     IF bad = {} THEN r = Valid
     ELSE \E k \in {Least(bad)} :
            /\ r.what = Violation(Values(b), k, check_missing)
            /\ IF k < 9 THEN r.kind = "3x3" /\ r.i = 3 * (k \div 3) /\ r.j = 3 * (k % 3)
               ELSE IF k < 18 THEN r.kind = "row" /\ r.i = k - 9
               ELSE r.kind = "column" /\ r.j = k - 18

(***************************************************************************)
(* C16: on the board left by any step, verify (with and without            *)
(* check_missing) reports the violation of the earliest violating group    *)
(* in the order all 3x3 (row-major), all rows 0..8, all columns 0..8, and  *)
(* within that group a duplicate before a missing number.                  *)
(***************************************************************************)
C16_VerifyReportsFirst ==
  [][/\ ReportsFirstViolation(board', TRUE)
     /\ ReportsFirstViolation(board', FALSE)]_vars

\* after step(): a board with a duplicate in a 3x3, a row and a column, and
\* before them a 3x3 that misses a number: "missing" is reported when
\* missing numbers are checked, the duplicate of the 3x3 when they are not
C16_Witness ==
  /\ pc = "done"
  /\ \E k \in 0..8 : \E k2 \in 9..17 : \E k3 \in 18..26 :
       /\ HasDup(Values(board), GroupAt(k))
       /\ HasDup(Values(board), GroupAt(k2))
       /\ HasDup(Values(board), GroupAt(k3))
       /\ \E k0 \in 0..(k - 1) : Violation(Values(board), k0, TRUE) = "missing"
  /\ verify(board, TRUE).what = "missing"
  /\ verify(board, FALSE).what = "Duplicate"
  /\ verify(board, FALSE).kind = "3x3"

(***************************************************************************)
(* C17: every put made by step() (forced or guessed) is made on a field    *)
(* that is empty and whose mark for the number put is 0, and the number is *)
(* held by no field of the row, the column or the 3x3 of that field.       *)
(***************************************************************************)
C17_PutOnLegalEmptyField ==
  [][IsPut =>
        /\ board[PutPos].value = 0
        /\ get_mark(board[PutPos], PutNumber) = 0
        /\ board'[PutPos].value = PutNumber
        /\ \A k \in 1..3 : \A q \in GroupsOf(PutPos)[k] :
              board[q].value # PutNumber]_vars

\* a forced move was put on a board loaded with a duplicate, at a field that
\* was empty, had mark 0 for the number and nonzero marks for other numbers
C17_Witness ==
  /\ act = "StepForced"
  /\ ~NoDup(init)
  /\ Top.entry[Top.pos].value = 0
  /\ get_mark(Top.entry[Top.pos], board[Top.pos].value) = 0
  /\ \E n \in Number : get_mark(Top.entry[Top.pos], n) > 0

(***************************************************************************)
(* C18: step() calls remove only from the call that put the field, after   *)
(* the recursion of that put returned False: the field then holds exactly  *)
(* the number that call put (so it is not empty), it was empty when the    *)
(* call was entered, and every other field holds what it held when the     *)
(* call was entered (every later put is already removed); the remove       *)
(* empties the field.  No other step turns a filled field into an empty    *)
(* one.                                                                    *)
(***************************************************************************)
C18_RemoveDiscipline ==
  [][/\ (pc = "ret" /\ ~ret /\ stack # <<>>) =>
          /\ board[Top.pos].value # 0
          /\ board[Top.pos].value = Top.numbers[Top.idx]
          /\ Top.entry[Top.pos].value = 0
          /\ \A p \in Pos \ {Top.pos} : board[p].value = Top.entry[p].value
          /\ board'[Top.pos].value = 0
     /\ \A p \in Pos :
          (board[p].value # 0 /\ board'[p].value = 0) =>
             (pc = "ret" /\ ~ret /\ stack # <<>> /\ p = Top.pos)]_vars

\* a guess is removed three calls deep, with a forced move of an outer call
\* still on the board
C18_Witness ==
  /\ act = "GuessRetract"
  /\ pc = "loop"
  /\ Len(stack) >= 3
  /\ board[Top.pos].value = 0
  /\ \E f \in Range(stack) : f.kind = "forced"

(***************************************************************************)
(* C19: in every state of Solver(board) and step(), and in the board left  *)
(* when step() has returned True or False, every field that was nonzero    *)
(* in the loaded board holds its loaded value: step() puts and removes     *)
(* only at fields that were loaded empty.                                  *)
(***************************************************************************)
C19_PrefilledKept ==
  \A p \in Pos : init[p] # 0 => board[p].value = init[p]

\* step() has returned True after filling at least 20 empty fields around
\* the loaded digits
C19_Witness ==
  /\ pc = "done"
  /\ ret
  /\ NumEmpty(init) >= 20
  /\ NumEmpty(init) <= 40
  /\ NumEmpty(Values(board)) = 0
  /\ Extends(Values(board), init)

====
